---- MODULE Spec2Model ----
(***************************************************************************)
(* Pagination drivers of the news-source scrapers.                         *)
(*                                                                         *)
(*   Spec        the eight function scrapers of ScrapingScripts/: the      *)
(*               page-number loops (bx_times, chicago_tribune,             *)
(*               daily_herald, cville_weekly) and the cursor-token loops   *)
(*               (chicago_reporter, cville_tomorrow, the_city, news_day).  *)
(*   SpecSiLive  the configurable SiLive driver (silive.py), in offset     *)
(*               and in cursor mode.                                       *)
(*   SpecSiLiveBroken  the same driver given a configuration that lacks a  *)
(*               required key or has a batch size of 0.                    *)
(*   SpecTwoSiLive   two SiLive objects whose scrape() calls are           *)
(*               interleaved.                                              *)
(*   SpecTokenServer the cursor-token loops against a server that always   *)
(*               answers, with no bound on the number of requests.         *)
(*   SpecRunScraper  scrape_newspaper.run_scraper around any of the eight  *)
(*               function scrapers, or given a name that is not registered.*)
(*   SpecExtract the extractors of the function scrapers, applied to one   *)
(*               page of items.                                            *)
(*   SpecScrapeArticle   scrape_article.py: the batched concurrent fetch   *)
(*               of the filtered articles and the split of the outcomes.   *)
(*   SpecArticleScraper  article_scraper.py: ArticleScraper.run().         *)
(*                                                                         *)
(* The transport is the environment: every request is answered by any      *)
(* response of a small set.  `events` is a history variable that records   *)
(* every request with its answer and every sleep, in program order.        *)
(***************************************************************************)
EXTENDS Integers, Sequences, FiniteSets, TLC

VARIABLES
    \* ---- function scrapers (main() of each module) ----
    scraper,                  \* which module's main() runs
    pc,                       \* position in main(): initial / loop / save / done
    page,                     \* page-number loops: `page`
    page_handle,              \* cursor-token loops: `page_handle` / `cursor`
    retry_count,              \* `retry_count`
    max_pages,                \* `max_pages`
    consecutive_empty_pages,  \* cville_weekly only
    all_articles,             \* `all_articles`
    saved,                    \* what save_results / save_data wrote, one entry per call
    \* ---- SiLive ----
    config,                   \* self.config
    current_page_param,       \* self.current_page_param
    total_results,            \* self.total_results
    retries,                  \* local `retries` of scrape()
    articles,                 \* self.articles
    errors,                   \* self.errors
    spc,                      \* position in scrape(): loop / save / done
    files,                    \* what save_results wrote: articles file, errors file
    parse_failure_log,        \* entries appended to parse_failure.log
    peer,                     \* a second SiLive object, while the first one runs
    \* ---- scrape_article.py ----
    sa_pc,                    \* position: gather / main / done
    filtered_articles,        \* main(): `filtered_articles`
    concurrency,              \* args.concurrency
    semaphore,                \* free permits of asyncio.Semaphore(concurrency)
    tasks,                    \* per article: pending / running / its outcome
    batch_i,                  \* process_articles(): `i`, as a 1-based index
    results,                  \* process_articles(): `results`
    successful,               \* main(): `successful`, as written to the output
    scrape_errors,            \* main(): `errors`, as written to the errors file
    \* ---- article_scraper.py ----
    as_pc,                    \* position in run(): batch / save / done
    input_articles,           \* run(): `articles`
    max_concurrent,           \* self.max_concurrent
    batch_start,              \* run(): `i`, as a 1-based index
    futures,                  \* per article of the batch: the task's position
    completed,                \* finished tasks not yet taken by as_completed
    scraper_results,          \* self.results
    failed_urls,              \* self.failed_urls
    request_count,            \* self.request_count
    written,                  \* the files run() wrote
    \* ---- history ----
    terminal,                 \* why the run left the loop
    events                    \* requests (with the response) and sleeps, in order

fnVars == <<scraper, pc, page, page_handle, retry_count, max_pages,
            consecutive_empty_pages, all_articles, saved>>
siVars == <<config, current_page_param, total_results, retries, articles,
            errors, spc, files, parse_failure_log, peer>>
saVars == <<sa_pc, filtered_articles, concurrency, semaphore, tasks, batch_i,
            results, successful, scrape_errors>>
asVars == <<as_pc, input_articles, max_concurrent, batch_start, futures,
            completed, scraper_results, failed_urls, request_count, written>>
artVars == <<saVars, asVars>>
vars == <<fnVars, siVars, artVars, terminal, events>>

----------------------------------------------------------------------------
(* Bounds *)

\* A run of a function scraper issues at most this many requests.
MaxFetches == 6

\* A run of SiLive.scrape issues at most this many requests.
MaxSiFetches == 4

\* A page handed to an extractor lists at most this many items.
MaxItems == 2

\* scrape_article.py and article_scraper.py are given at most this many
\* articles, and a concurrency setting of at most MaxConcurrency.
MaxArticles == 3
MaxConcurrency == 2

\* Records a server hands out in SpecTokenServer.
MaxAccum == 2

\* SpecTwoSiLive: the scheduler changes the running object only while at
\* most this many requests have been issued.
MaxSwitchReq == 1

----------------------------------------------------------------------------
(* Python values.  A value is [t, v]: None, the v-th string of the string  *)
(* table (v = 0 is the empty string), or the integer v.                    *)

PyNone == [t |-> "None", v |-> 0]
PyStr(i) == [t |-> "str", v |-> i]
PyInt(n) == [t |-> "int", v |-> n]

\* bool(x): None, "" and 0 are falsy.
Truthy(x) == x.t # "None" /\ x.v # 0

\* Integer-valued results that may be None (parse_total_*): None is -1.
NoneInt == 0 - 1

\* String table for links: 1 is a link without a scheme, 2 is the same link
\* with "https://" in front, 3 is a link that already starts with "http".
\* Other fields only use 1..3 as opaque non-empty strings.
SchemelessLink == PyStr(1)
HttpsOfSchemeless == PyStr(2)
HttpLink == PyStr(3)

----------------------------------------------------------------------------
(* Responses.  status 0 stands for no response at all: a connection error, *)
(* a timeout, or the adapter's Retry giving up on a status of its          *)
(* status_forcelist (session.get raises).                                  *)

\* One listed article as the source serves it; a missing field is PyNone.
Item(title, link, date, body) ==
    [title |-> title, link |-> link, date |-> date, body |-> body]

ItemA == Item(PyStr(1), SchemelessLink, PyStr(1), PyStr(1))
ItemB == Item(PyStr(2), HttpLink, PyStr(2), PyStr(2))
ItemNoLink == Item(PyStr(3), PyNone, PyStr(3), PyStr(3))

\* The item lists a page may carry.
ItemLists == { <<>>, <<ItemA>>, <<ItemB, ItemNoLink>> }

\* A body: kind "None" (no body: the fetch returned None), "empty" (status
\* 200, zero-length text), "html", "json" (a JSON object), "emptyjson"
\* (the JSON object {}) or "badjson" (a text on which response.json() raises
\* an exception that is not a RequestException: RecursionError on deeply
\* nested brackets, and ValueError on any non-JSON text where requests does
\* not wrap the decoder's error).  total is the count the page states
\* (NoneInt when it states none), handle the continuation token of a JSON
\* page.
Body(kind, items, total, handle) ==
    [kind |-> kind, items |-> items, total |-> total, handle |-> handle]

NoBody == Body("None", <<>>, NoneInt, PyNone)
EmptyText == Body("empty", <<>>, NoneInt, PyNone)
EmptyJson == Body("emptyjson", <<>>, NoneInt, PyNone)
BadJson == Body("badjson", <<>>, NoneInt, PyNone)

Response(status, body) == [status |-> status, body |-> body]

FailedResponses == { Response(0, NoBody), Response(404, NoBody) }

\* Totals a first page may state.
Totals == { NoneInt, 2, 11 }

\* Answers to the preliminary fetch of a page-number scraper.
InitialResponses ==
    FailedResponses
    \cup { Response(200, EmptyText) }
    \cup { Response(200, Body("html", <<ItemA>>, t, PyNone)) : t \in Totals }

\* Answers to a fetch of the page-number loop (the loop never reads total).
PageResponses ==
    FailedResponses
    \cup { Response(200, EmptyText) }
    \cup { Response(200, Body("html", il, NoneInt, PyNone)) : il \in ItemLists }

\* The statuses of the adapter's Retry(status_forcelist=...).
RetrySet == { 429, 500, 502, 503, 504 }

\* Continuation tokens a JSON page may carry: absent, "", or one of two.
Handles == { PyNone, PyStr(0), PyStr(1), PyStr(2) }

\* Answers to a fetch of a cursor-token loop.
TokenResponses ==
    FailedResponses
    \cup { Response(200, EmptyJson), Response(200, BadJson) }
    \cup { Response(200, Body("json", <<ItemB, ItemNoLink>>, NoneInt, h)) : h \in Handles }
    \cup { Response(200, Body("json", <<>>, NoneInt, h)) : h \in { PyNone, PyStr(1) } }

----------------------------------------------------------------------------
(* History *)

ReqEvent(phase, cursor, resp) ==
    [e |-> "req", phase |-> phase, cursor |-> cursor, resp |-> resp, ms |-> 0]
SleepEvent(ms) ==
    [e |-> "sleep", phase |-> "loop", cursor |-> PyNone,
     resp |-> Response(0, NoBody), ms |-> ms]

\* Indices of the requests in a history.
ReqIdx(h) == { i \in 1..Len(h) : h[i].e = "req" }
NReq(h) == Cardinality(ReqIdx(h))
CanFetch == NReq(events) < MaxFetches
SiCanFetch == NReq(events) < MaxSiFetches

----------------------------------------------------------------------------
(* The function scrapers: fetch and extraction *)

PageScrapers == { "bx_times", "chicago_tribune", "daily_herald", "cville_weekly" }
TokenScrapers == { "chicago_reporter", "cville_tomorrow", "the_city", "news_day" }
Scrapers == PageScrapers \cup TokenScrapers

\* fetch_page: the response text, or None when session.get or
\* raise_for_status raises (every exception is caught).
fetch_page(resp) == IF resp.status = 200 THEN resp.body ELSE NoBody

\* fetch_data: response.json(), or None when an exception is caught.
fetch_data(resp) ==
    IF resp.status = 200 /\ resp.body.kind # "badjson" THEN resp.body ELSE NoBody

\* The exceptions fetch_data catches: cville_tomorrow catches Exception, the
\* other three only requests.exceptions.RequestException.
CatchesException(s) == s = "cville_tomorrow"

\* fetch_data lets the exception of response.json() escape into main().
FetchRaises(s, resp) ==
    /\ resp.status = 200
    /\ resp.body.kind = "badjson"
    /\ ~CatchesException(s)

\* `not html` / `not data`: None, the empty text and {} are falsy.
Falsy(b) == b.kind \in { "None", "empty", "emptyjson" }

\* An extracted record; a key the scraper does not emit is PyNone.
Record(title, link, date, text) ==
    [title |-> title, link |-> link, date |-> date, text |-> text]

\* cville_tomorrow: "https://" is put in front of a link that does not
\* start with "http"; a missing link becomes ''.
WithScheme(link) ==
    IF link.t = "None" THEN PyStr(0)
    ELSE IF link = SchemelessLink THEN HttpsOfSchemeless
    ELSE link

\* Mutant: the link is not tested.
Accepts_IgnoresLink(s, it) ==
    CASE s \in { "bx_times", "cville_weekly" } ->
            Truthy(it.title)
      [] s = "news_day" ->
            Truthy(it.date) /\ Truthy(it.title) /\ Truthy(it.body)
      [] OTHER ->
            Truthy(it.date) /\ Truthy(it.title)

\* The test that guards articles.append in each extractor.
Accepts(s, it) ==
    CASE s \in { "bx_times", "cville_weekly" } ->
            Truthy(it.title) /\ Truthy(it.link)
      [] s = "news_day" ->
            Truthy(it.date) /\ Truthy(it.title) /\ Truthy(it.link) /\ Truthy(it.body)
      [] OTHER ->
            Truthy(it.date) /\ Truthy(it.title) /\ Truthy(it.link)

\* The record each extractor appends.
RecordOf(s, it) ==
    CASE s = "cville_weekly" -> Record(it.title, it.link, PyNone, PyNone)
      [] s = "cville_tomorrow" -> Record(it.title, WithScheme(it.link), it.date, PyNone)
      [] s = "news_day" -> Record(it.title, it.link, it.date, it.body)
      [] OTHER -> Record(it.title, it.link, it.date, PyNone)

Extract(s, items) ==
    LET kept == SelectSeq(items, LAMBDA it : Accepts(s, it))
    IN  [i \in 1..Len(kept) |-> RecordOf(s, kept[i])]

\* parse_articles(html) of the page-number scrapers.
parse_articles(s, html) == Extract(s, html.items)

\* process_data(data) of the cursor-token scrapers.
process_data(s, data) == IF Falsy(data) THEN <<>> ELSE Extract(s, data.items)

\* bx_times.parse_total_pages: the N of "Page k of N", or None.
parse_total_pages_bx(html) == html.total

\* cville_weekly.parse_total_pages: the largest page link (at least 1), or
\* 100 when the page has no pagination block.
parse_total_pages_cw(html) ==
    IF html.total = NoneInt THEN 100
    ELSE IF html.total > 1 THEN html.total ELSE 1

\* chicago_tribune.parse_total_results: max(1, total), or None.
parse_total_results_ct(html) ==
    IF html.total = NoneInt THEN NoneInt
    ELSE IF html.total > 1 THEN html.total ELSE 1

\* daily_herald.parse_total_results: the module never imports re, so
\* re.search raises NameError inside the try and the function returns None.
parse_total_results_dh(html) == NoneInt

results_per_page == 10
DefaultPagesBx == 150
DefaultResultsCt == 1000
DefaultResultsDh == 34238

\* Ceiling division of main(): (total + results_per_page - 1) // results_per_page
CeilPages(total) == (total + results_per_page - 1) \div results_per_page

\* max_pages as main() computes it from the first page.
MaxPagesOf(s, html) ==
    CASE s = "bx_times" ->
            LET total_pages == parse_total_pages_bx(html)
            IN  IF total_pages # NoneInt /\ total_pages # 0
                THEN total_pages ELSE DefaultPagesBx
      [] s = "chicago_tribune" ->
            LET found == parse_total_results_ct(html)
            IN  CeilPages(IF found = NoneInt \/ found = 0
                          THEN DefaultResultsCt ELSE found)
      [] s = "daily_herald" ->
            LET found == parse_total_results_dh(html)
            IN  CeilPages(IF found = NoneInt \/ found = 0
                          THEN DefaultResultsDh ELSE found)
      [] OTHER -> parse_total_pages_cw(html)

\* The page the preliminary fetch asks for.
InitialPage(s) == IF s = "bx_times" THEN 2 ELSE 1

\* The page the loop starts at.
FirstLoopPage(s) == IF s = "cville_weekly" THEN 2 ELSE 1

max_retries == 3
max_empty_pages == 3

\* Mutant: the budget is one retry short.
CanRetry_OneLess(rc) == rc < max_retries - 1

\* `if retry_count < max_retries`
CanRetry(rc) == rc < max_retries

\* Mutant: the delay grows linearly.
BackoffMs_Linear(rc) == (2 * rc) * 1000

\* time.sleep(2 ** retry_count), in milliseconds
BackoffMs(rc) == (2 ^ rc) * 1000

\* Mutant: a successful page leaves the failure counter as it is.
AfterSuccess_Keeps(rc) == rc

\* `retry_count = 0` after a page that moved the cursor
AfterSuccess(rc) == 0

\* The delay after a successful page, in milliseconds.
PoliteMs(s) == IF s \in { "cville_weekly", "cville_tomorrow" } THEN 100 ELSE 1000

\* Mutant: the loop runs one page past the cap.
WithinCap_OneMore(p, mp) == p <= mp + 1

\* `while page <= max_pages`
WithinCap(p, mp) == p <= mp

\* Mutant: an empty page is never taken as the end.
NoArticles_Never(arts) == FALSE

\* `if not articles`
NoArticles(arts) == arts = <<>>

\* Mutant: the crawl stops only after the limit is passed.
EmptyLimitReached_Late(n) == n > max_empty_pages

\* cville_weekly: `if consecutive_empty_pages >= max_empty_pages`
EmptyLimitReached(n) == n >= max_empty_pages

\* Mutant: the new records are put in front.
Extend_Prepends(all, arts) == arts \o all

\* Mutant: the records of the page are dropped.
Extend_Drops(all, arts) == all

\* all_articles.extend(articles)
Extend(all, arts) == all \o arts

\* Mutant: the page is not advanced.
NextPage_Stays(p) == p

\* page += 1
NextPage(p) == p + 1

\* Mutant: the repeated-token test is left out.
TokenExhausted_NoRepeatGuard(new, cur) == ~Truthy(new)

\* `if not new_page_handle or new_page_handle == page_handle: break`
TokenExhausted(new, cur) == ~Truthy(new) \/ new = cur

\* json.dump(articles, f): what the output file holds.
save_results(arts) == arts

----------------------------------------------------------------------------
(* SiLive state while a function scraper runs: not constructed. *)

NoConfig == [name |-> "none"]

\* The fields of a SiLive object and the position of its scrape() call.
Session(id, cfg, cur, total, r, arts, errs, at, fs, term) ==
    [id |-> id, config |-> cfg, current_page_param |-> cur,
     total_results |-> total, retries |-> r, articles |-> arts,
     errors |-> errs, spc |-> at, files |-> fs, terminal |-> term]

\* There is no second object.
NoPeer == Session(0, NoConfig, PyNone, PyNone, 0, <<>>, <<>>, "idle", <<>>, "running")

SiIdle ==
    /\ peer = NoPeer
    /\ config = NoConfig
    /\ current_page_param = PyNone
    /\ total_results = PyNone
    /\ retries = 0
    /\ articles = <<>>
    /\ errors = <<>>
    /\ spc = "idle"
    /\ files = <<>>
    /\ parse_failure_log = <<>>

\* scrape_article.py and article_scraper.py while another program runs.
SaIdle ==
    /\ sa_pc = "idle"
    /\ filtered_articles = <<>>
    /\ concurrency = 0
    /\ semaphore = 0
    /\ tasks = <<>>
    /\ batch_i = 0
    /\ results = <<>>
    /\ successful = <<>>
    /\ scrape_errors = <<>>

AsIdle ==
    /\ as_pc = "idle"
    /\ input_articles = <<>>
    /\ max_concurrent = 0
    /\ batch_start = 0
    /\ futures = <<>>
    /\ completed = <<>>
    /\ scraper_results = <<>>
    /\ failed_urls = <<>>
    /\ request_count = 0
    /\ written = <<>>

----------------------------------------------------------------------------
(* The function scrapers: main() *)

Init ==
    /\ scraper \in Scrapers
    /\ pc = IF scraper \in PageScrapers THEN "initial" ELSE "loop"
    /\ page = FirstLoopPage(scraper)
    /\ page_handle = PyNone
    /\ retry_count = 0
    /\ max_pages = 0
    /\ consecutive_empty_pages = 0
    /\ all_articles = <<>>
    /\ saved = <<>>
    /\ terminal = "running"
    /\ events = <<>>
    /\ SiIdle
    /\ SaIdle
    /\ AsIdle

\* The preliminary fetch of a page-number scraper and what main() derives
\* from it; a failed fetch returns from main() at once.
InitialFetch ==
    /\ pc = "initial"
    /\ CanFetch
    /\ \E resp \in InitialResponses :
         LET initial_html == fetch_page(resp)
         IN  /\ events' = Append(events,
                     ReqEvent("initial", PyInt(InitialPage(scraper)), resp))
             /\ IF Falsy(initial_html)
                THEN /\ pc' = "done"
                     /\ terminal' = "aborted"
                     /\ UNCHANGED <<max_pages, all_articles>>
                ELSE /\ pc' = "loop"
                     /\ max_pages' = MaxPagesOf(scraper, initial_html)
                     /\ all_articles' =
                            IF scraper = "cville_weekly"
                            THEN parse_articles(scraper, initial_html)
                            ELSE <<>>
                     /\ UNCHANGED terminal
    /\ UNCHANGED <<scraper, page, page_handle, retry_count,
                   consecutive_empty_pages, saved, siVars, artVars>>

\* `while page <= max_pages` is false: the loop ends at the page cap.
PageLoopExit ==
    /\ pc = "loop"
    /\ scraper \in PageScrapers
    /\ ~WithinCap(page, max_pages)
    /\ pc' = "save"
    /\ terminal' = "exhausted"
    /\ UNCHANGED <<scraper, page, page_handle, retry_count, max_pages,
                   consecutive_empty_pages, all_articles, saved, siVars, artVars,
                   events>>

\* Mutant: an exceeded budget returns from main() like a failed first fetch,
\* without reaching the save step.
FetchFailed_ReturnsWithoutSave(req) ==
    IF CanRetry(retry_count)
    THEN /\ retry_count' = retry_count + 1
         /\ events' = events \o << req, SleepEvent(BackoffMs(retry_count + 1)) >>
         /\ UNCHANGED <<pc, terminal>>
    ELSE /\ pc' = "done"
         /\ terminal' = "failed"
         /\ events' = Append(events, req)
         /\ UNCHANGED retry_count

\* Mutant: the retry sleeps but does not count the failure.
FetchFailed_NoCount(req) ==
    IF CanRetry(retry_count)
    THEN /\ retry_count' = retry_count
         /\ events' = events \o << req, SleepEvent(BackoffMs(retry_count + 1)) >>
         /\ UNCHANGED <<pc, terminal>>
    ELSE /\ pc' = "save"
         /\ terminal' = "failed"
         /\ events' = Append(events, req)
         /\ UNCHANGED retry_count

\* The failure branch shared by all eight loops.
FetchFailed(req) ==
    IF CanRetry(retry_count)
    THEN /\ retry_count' = retry_count + 1
         /\ events' = events \o << req, SleepEvent(BackoffMs(retry_count + 1)) >>
         /\ UNCHANGED <<pc, terminal>>
    ELSE /\ pc' = "save"
         /\ terminal' = "failed"
         /\ events' = Append(events, req)
         /\ UNCHANGED retry_count

\* One iteration of the page-number loop.
PageIteration ==
    /\ pc = "loop"
    /\ scraper \in PageScrapers
    /\ WithinCap(page, max_pages)
    /\ CanFetch
    /\ \E resp \in PageResponses :
         LET html == fetch_page(resp)
             req == ReqEvent("loop", PyInt(page), resp)
             arts == parse_articles(scraper, html)
         IN  IF Falsy(html)
             THEN /\ FetchFailed(req)
                  /\ UNCHANGED <<page, consecutive_empty_pages, all_articles>>
             ELSE IF scraper = "cville_weekly"
             THEN IF NoArticles(arts) /\ EmptyLimitReached(consecutive_empty_pages + 1)
                  THEN /\ consecutive_empty_pages' = consecutive_empty_pages + 1
                       /\ pc' = "save"
                       /\ terminal' = "exhausted"
                       /\ events' = Append(events, req)
                       /\ UNCHANGED <<page, retry_count, all_articles>>
                  ELSE /\ consecutive_empty_pages' =
                              IF NoArticles(arts) THEN consecutive_empty_pages + 1 ELSE 0
                       /\ all_articles' =
                              IF NoArticles(arts) THEN all_articles
                              ELSE Extend(all_articles, arts)
                       /\ page' = NextPage(page)
                       /\ retry_count' = AfterSuccess(retry_count)
                       /\ events' = events \o << req, SleepEvent(PoliteMs(scraper)) >>
                       /\ UNCHANGED <<pc, terminal>>
             ELSE IF NoArticles(arts)
                  THEN /\ pc' = "save"
                       /\ terminal' = "exhausted"
                       /\ events' = Append(events, req)
                       /\ UNCHANGED <<page, retry_count, consecutive_empty_pages,
                                      all_articles>>
                  ELSE /\ all_articles' = Extend(all_articles, arts)
                       /\ page' = NextPage(page)
                       /\ retry_count' = AfterSuccess(retry_count)
                       /\ events' = events \o << req, SleepEvent(PoliteMs(scraper)) >>
                       /\ UNCHANGED <<pc, terminal, consecutive_empty_pages>>
    /\ UNCHANGED <<scraper, page_handle, max_pages, saved, siVars, artVars>>

\* One iteration of the cursor-token loop (`while True`).
TokenIteration ==
    /\ pc = "loop"
    /\ scraper \in TokenScrapers
    /\ CanFetch
    /\ \E resp \in TokenResponses :
         LET data == fetch_data(resp)
             req == ReqEvent("loop", page_handle, resp)
             arts == process_data(scraper, data)
             new_page_handle == data.handle
         IN  IF FetchRaises(scraper, resp)
             THEN \* the exception leaves main(): nothing is saved
                  /\ pc' = "raised"
                  /\ terminal' = "raised"
                  /\ events' = Append(events, req)
                  /\ UNCHANGED <<page_handle, retry_count, all_articles>>
             ELSE IF Falsy(data)
             THEN /\ FetchFailed(req)
                  /\ UNCHANGED <<page_handle, all_articles>>
             ELSE /\ all_articles' = Extend(all_articles, arts)
                  /\ IF TokenExhausted(new_page_handle, page_handle)
                     THEN /\ pc' = "save"
                          /\ terminal' = "exhausted"
                          /\ events' = Append(events, req)
                          /\ UNCHANGED <<page_handle, retry_count>>
                     ELSE /\ page_handle' = new_page_handle
                          /\ retry_count' = AfterSuccess(retry_count)
                          /\ events' = events \o << req, SleepEvent(PoliteMs(scraper)) >>
                          /\ UNCHANGED <<pc, terminal>>
    /\ UNCHANGED <<scraper, page, max_pages, consecutive_empty_pages, saved,
                   siVars, artVars>>

\* save_results(all_articles, output_dir) / save_data(...), then return.
Save ==
    /\ pc = "save"
    /\ saved' = Append(saved, save_results(all_articles))
    /\ pc' = "done"
    /\ UNCHANGED <<scraper, page, page_handle, retry_count, max_pages,
                   consecutive_empty_pages, all_articles, terminal, siVars,
                   artVars, events>>

Next ==
    \/ InitialFetch
    \/ PageLoopExit
    \/ PageIteration
    \/ TokenIteration
    \/ Save

Spec == Init /\ [][Next]_vars

----------------------------------------------------------------------------
(* The cursor-token loop against a transport that always succeeds.  The    *)
(* run is not cut by a request bound: the history is not recorded, and the *)
(* server stops sending records once MaxAccum of them have been taken.     *)

\* Pages of a server that always answers 200 with a JSON object, and draws
\* its continuation token from Handles.
ServedResponses ==
    { Response(200, Body("json", il, NoneInt, h)) :
          il \in { <<>>, <<ItemA>>, <<ItemB>> }, h \in Handles }

TsInit ==
    /\ scraper \in TokenScrapers
    /\ pc = "loop"
    /\ page = FirstLoopPage(scraper)
    /\ page_handle = PyNone
    /\ retry_count = 0
    /\ max_pages = 0
    /\ consecutive_empty_pages = 0
    /\ all_articles = <<>>
    /\ saved = <<>>
    /\ terminal = "running"
    /\ events = <<>>
    /\ SiIdle
    /\ SaIdle
    /\ AsIdle

\* One iteration of the cursor-token loop on a page that was fetched.
TsIteration ==
    /\ pc = "loop"
    /\ scraper \in TokenScrapers
    /\ \E resp \in ServedResponses :
         LET data == fetch_data(resp)
             arts == process_data(scraper, data)
             new_page_handle == data.handle
         IN  /\ Len(all_articles) + Len(arts) <= MaxAccum
             /\ all_articles' = Extend(all_articles, arts)
             /\ IF TokenExhausted(new_page_handle, page_handle)
                THEN /\ pc' = "save"
                     /\ terminal' = "exhausted"
                     /\ UNCHANGED <<page_handle, retry_count>>
                ELSE /\ page_handle' = new_page_handle
                     /\ retry_count' = AfterSuccess(retry_count)
                     /\ UNCHANGED <<pc, terminal>>
    /\ UNCHANGED <<scraper, page, max_pages, consecutive_empty_pages, saved,
                   siVars, artVars, events>>

TsNext == TsIteration \/ Save

\* The loop takes a step whenever it can: main() is not suspended forever.
SpecTokenServer == TsInit /\ [][TsNext]_vars /\ WF_vars(TsNext)

----------------------------------------------------------------------------
(* The extractors on their own: parse_articles / process_data applied to   *)
(* one page.                                                               *)

\* The items a page may list: every field present, empty or missing.
ExtractItems ==
    { Item(t, l, d, b) : t \in { PyNone, PyStr(0), PyStr(1) },
                         l \in { PyNone, PyStr(0), SchemelessLink, HttpLink },
                         d \in { PyNone, PyStr(1) },
                         b \in { PyNone, PyStr(1) } }

ExtractPages == UNION { [1..n -> ExtractItems] : n \in 0..MaxItems }

\* The page is held as the answer of one request.
ExtractInit ==
    /\ scraper \in Scrapers
    /\ pc = "extract"
    /\ page = FirstLoopPage(scraper)
    /\ page_handle = PyNone
    /\ retry_count = 0
    /\ max_pages = 0
    /\ consecutive_empty_pages = 0
    /\ all_articles = <<>>
    /\ saved = <<>>
    /\ terminal = "running"
    /\ \E items \in ExtractPages :
         events = << ReqEvent("extract", PyNone,
                       Response(200, Body(IF scraper \in PageScrapers
                                          THEN "html" ELSE "json",
                                          items, NoneInt, PyNone))) >>
    /\ SiIdle
    /\ SaIdle
    /\ AsIdle

\* articles = parse_articles(html) / process_data(data)
ExtractPage ==
    /\ pc = "extract"
    /\ all_articles' =
          IF scraper \in PageScrapers
          THEN parse_articles(scraper, events[1].resp.body)
          ELSE process_data(scraper, events[1].resp.body)
    /\ pc' = "extracted"
    /\ UNCHANGED <<scraper, page, page_handle, retry_count, max_pages,
                   consecutive_empty_pages, saved, siVars, artVars, terminal,
                   events>>

ExtractNext == ExtractPage

SpecExtract == ExtractInit /\ [][ExtractNext]_vars

----------------------------------------------------------------------------
(* scrape_newspaper.py: run_scraper(scraper_name, query, output_dir) *)

\* SCRAPER_REGISTRY once the package is imported: the main() of the eight
\* modules that carry @register_scraper (silive.py registers nothing).
SCRAPER_REGISTRY == Scrapers

\* The names run_scraper may be given.
ScraperNames == SCRAPER_REGISTRY \cup { "silive", "nosuch" }

\* The class of the exception that leaves a main(): the one response.json()
\* raises on a "badjson" body, an Exception that is not a RequestException.
RaisedClass == "Exception"

\* Mutant: run_scraper guards the call like fetch_data does.
run_scraper_catches_RequestOnly(exc) == exc = "RequestException"

\* `except Exception as e` around the call.
run_scraper_catches(exc) == exc \in { "RequestException", "Exception" }

RsInit ==
    /\ scraper \in ScraperNames
    /\ pc = "run_scraper"
    /\ page = FirstLoopPage(scraper)
    /\ page_handle = PyNone
    /\ retry_count = 0
    /\ max_pages = 0
    /\ consecutive_empty_pages = 0
    /\ all_articles = <<>>
    /\ saved = <<>>
    /\ terminal = "running"
    /\ events = <<>>
    /\ SiIdle
    /\ SaIdle
    /\ AsIdle

\* The registry test, and the call of the registered main().
RunScraper ==
    /\ pc = "run_scraper"
    /\ IF scraper \notin SCRAPER_REGISTRY
       THEN /\ pc' = "returned"
            /\ terminal' = "not found"
       ELSE /\ pc' = IF scraper \in PageScrapers THEN "initial" ELSE "loop"
            /\ UNCHANGED terminal
    /\ UNCHANGED <<scraper, page, page_handle, retry_count, max_pages,
                   consecutive_empty_pages, all_articles, saved, siVars, artVars,
                   events>>

\* main() returns, and run_scraper after it.
RsReturn ==
    /\ pc = "done"
    /\ pc' = "returned"
    /\ UNCHANGED <<scraper, page, page_handle, retry_count, max_pages,
                   consecutive_empty_pages, all_articles, saved, siVars, artVars,
                   terminal, events>>

\* main() raises: the except clause logs the error and run_scraper returns,
\* or the exception goes on to the caller.
RsExcept ==
    /\ pc = "raised"
    /\ pc' = IF run_scraper_catches(RaisedClass) THEN "returned" ELSE "propagated"
    /\ UNCHANGED <<scraper, page, page_handle, retry_count, max_pages,
                   consecutive_empty_pages, all_articles, saved, siVars, artVars,
                   terminal, events>>

RsNext ==
    \/ RunScraper
    \/ Next
    \/ RsReturn
    \/ RsExcept

SpecRunScraper == RsInit /\ [][RsNext]_vars

----------------------------------------------------------------------------
(* SiLive: configuration, responses, decoding *)

\* A source configuration: config['name'], config['pagination'] (type,
\* batch_size, initial_value) and config['request_settings'] (max_retries;
\* delay and retry_delay in milliseconds).  missing names a key the
\* configuration lacks ("none": it has them all).
Config(name, type, mr) ==
    [name |-> name, type |-> type, batch_size |-> 2, initial_value |-> 0,
     max_retries |-> mr, delay |-> 1000, retry_delay |-> 5000,
     missing |-> "none"]

Configs ==
    { Config(n, t, mr) : n \in { "silive", "other" },
                         t \in { "offset", "cursor" }, mr \in { 1, 2 } }

\* Configurations that SiLive.__init__ accepts as it accepts any dict: one
\* required key is missing (the fields the model keeps for that key are
\* never read), or batch_size is 0.
BrokenConfigs ==
    { [Config("silive", t, 1) EXCEPT !.missing = m] :
          t \in { "offset", "cursor" },
          m \in { "base_url", "request_settings", "name" } }
    \cup { [Config("silive", "offset", 1) EXCEPT !.missing = "total_field"],
           [Config("silive", "offset", 1) EXCEPT !.missing = "batch_size"],
           [Config("silive", "offset", 1) EXCEPT !.batch_size = 0] }

\* self.config[key] does not raise KeyError.
Has(cfg, key) == cfg.missing # key

\* A decoded JSON value: falsy ({}), or an object with its item list, the
\* value under pagination.total_field and the value under
\* pagination.response_field (PyNone when the key is absent or null).
Data(truthy, items, total, token) ==
    [truthy |-> truthy, items |-> items, total |-> total, token |-> token]

NoData == Data(FALSE, <<>>, PyNone, PyNone)

\* The objects a page of each pagination type may decode to.
PageData(type) ==
    IF type = "offset"
    THEN { Data(TRUE, <<ItemA, ItemNoLink>>, t, PyNone) : t \in { PyNone, PyInt(4) } }
         \cup { Data(TRUE, <<>>, PyInt(100), PyNone) }
    ELSE { Data(TRUE, <<ItemA, ItemNoLink>>, PyNone, h) :
               h \in { PyNone, PyStr(0), PyStr(1) } }
         \cup { Data(TRUE, <<>>, PyNone, PyStr(2)) }

\* A response of requests.get.  status 0: the call raised.  retry_after is
\* the Retry-After header in seconds, 0 when the header is absent.  The
\* text is one of:
\* "json" (valid JSON, decoding to data), "wrapped" (not JSON, holds
\* JSON.parse('...') whose content decodes to data), "wrapped_cut" (as
\* "wrapped", but a string inside the content holds a quote followed by a
\* closing parenthesis, as in JSON.parse('{"a": "f(\"x\")"}'): the
\* non-greedy group of the regular expression ends at that quote),
\* "wrapped_bad" (the wrapper's content is not JSON), "garbage" (no
\* wrapper).
SiResponse(status, retry_after, kind, data) ==
    [status |-> status, retry_after |-> retry_after, kind |-> kind, data |-> data]

SiResponses(type) ==
    { SiResponse(0, 0, "none", NoData),
      SiResponse(404, 0, "none", NoData),
      SiResponse(429, 0, "none", NoData),
      SiResponse(200, 0, "json", NoData),
      SiResponse(200, 0, "wrapped_bad", NoData),
      SiResponse(200, 0, "garbage", NoData) }
    \cup { SiResponse(200, 0, "json", d) : d \in PageData(type) }
    \cup { SiResponse(200, 0, k, Data(TRUE, <<ItemA>>, PyInt(100), PyStr(2))) :
               k \in { "wrapped", "wrapped_cut" } }

\* parse_response: json.loads(text); for the source named 'silive' the
\* JSON.parse('...') wrapper is tried next; None otherwise.
parse_response(cfg, resp) ==
    IF resp.kind = "json" THEN resp.data
    ELSE IF Has(cfg, "name") /\ cfg.name = "silive" /\ resp.kind = "wrapped"
    THEN resp.data
    ELSE NoData    \* also when config['name'] raises KeyError: see SiIteration

\* parse_response reaches its except block (log_error and
\* debug_failed_parse) when the wrapper is found and the captured group does
\* not parse.
ParseRaises(cfg, resp) ==
    /\ Has(cfg, "name")
    /\ cfg.name = "silive"
    /\ resp.kind \in { "wrapped_bad", "wrapped_cut" }

\* debug_failed_parse(raw, processed): the entry appended to
\* parse_failure.log, which holds the raw text and the string cut from it.
debug_failed_parse(resp) == [raw |-> resp, processed |-> resp.kind]

\* process_item: the mapped fields of an item; the link gets "https://" in
\* front when it is non-empty.
SiLink(link) ==
    IF ~Truthy(link) THEN link
    ELSE IF link = SchemelessLink THEN HttpsOfSchemeless
    ELSE PyStr(link.v + 1)

process_item(it) == Record(it.title, SiLink(it.link), it.date, PyNone)

ProcessItems(items) == [i \in 1..Len(items) |-> process_item(items[i])]

\* log_error: the entry appended to self.errors.
ErrorEntry(error, context) == [error |-> error, context |-> context]

\* build_params: the pagination parameter sent with the request (PyNone
\* when none is sent).
build_params(cfg, cur) ==
    IF cfg.type = "offset" THEN cur
    ELSE IF Truthy(cur) THEN cur ELSE PyNone

\* Mutant: the offset must pass the total, not only reach it.
OffsetExhausted_Strict(offset, total) == offset > total

\* handle_pagination, offset: `if self.current_page_param >= self.total_results`
OffsetExhausted(offset, total) == offset >= total

\* handle_pagination: the cursor after a decoded page.  In offset mode the
\* offset is advanced first; comparing it with a missing total raises.
AdvancedOffset(cfg, cur) == PyInt(cur.v + cfg.batch_size)

handle_pagination(cfg, cur, data) ==
    IF cfg.type = "offset"
    THEN IF data.total.t = "None" THEN AdvancedOffset(cfg, cur)
         ELSE IF OffsetExhausted(cur.v + cfg.batch_size, data.total.v) THEN PyNone
         ELSE AdvancedOffset(cfg, cur)
    ELSE data.token

PaginationRaises(cfg, data) == cfg.type = "offset" /\ data.total.t = "None"

\* handle_pagination raises KeyError at pagination_config['total_field'],
\* before it changes anything.
TotalFieldMissing(cfg) == cfg.type = "offset" /\ ~Has(cfg, "total_field")

\* handle_pagination raises KeyError at pagination_config['batch_size'],
\* after it has stored the total and before it changes the cursor.
BatchSizeMissing(cfg) == cfg.type = "offset" /\ ~Has(cfg, "batch_size")

\* `if retries > max_retries: break`
BudgetExceeded(cfg, r) == r > cfg.max_retries

\* handle_rate_limit: int(Retry-After), 60 when the header is absent.
RateLimitSecs(resp) == IF resp.retry_after = 0 THEN 60 ELSE resp.retry_after

----------------------------------------------------------------------------
(* Function-scraper state while SiLive runs: no main() is running. *)

FnIdle ==
    /\ scraper = "silive"
    /\ pc = "idle"
    /\ page = 0
    /\ page_handle = PyNone
    /\ retry_count = 0
    /\ max_pages = 0
    /\ consecutive_empty_pages = 0
    /\ all_articles = <<>>
    /\ saved = <<>>

----------------------------------------------------------------------------
(* SiLive.scrape() *)

\* __init__ followed by the first two statements of scrape().
SiInit ==
    /\ peer = NoPeer
    /\ config \in Configs
    /\ current_page_param = PyInt(config.initial_value)
    /\ total_results = PyNone
    /\ retries = 0
    /\ articles = <<>>
    /\ errors = <<>>
    /\ spc = "loop"
    /\ files = <<>>
    /\ parse_failure_log = <<>>
    /\ terminal = "running"
    /\ events = <<>>
    /\ FnIdle
    /\ SaIdle
    /\ AsIdle

\* `while self.current_page_param is not None` is false.
SiLoopExit ==
    /\ spc = "loop"
    /\ current_page_param = PyNone
    /\ spc' = "save"
    /\ terminal' = "exhausted"
    /\ UNCHANGED <<fnVars, artVars, peer, config, current_page_param, total_results,
                   retries, articles, errors, files, parse_failure_log, events>>

\* Mutant: every status other than 200 is waited out and asked again.
IsRateLimit_AnyError(status) == status # 200

\* `if response.status_code == 429`
IsRateLimit(status) == status = 429

\* An exception leaves scrape(): save_results() is not reached.
SiCrash(evs, errs, r) ==
    /\ errors' = errs
    /\ retries' = r
    /\ spc' = "raised"
    /\ terminal' = "raised"
    /\ events' = events \o evs

\* The except block of scrape(): evs are the events of the iteration, errs
\* the entries logged before the block, cur the cursor and r the value of
\* `retries` at the time of the exception.  log_error reads config['name']
\* before it appends, and the budget test reads config['request_settings'].
SiExcept(evs, errs, cur, r) ==
    IF ~Has(config, "name")
    THEN SiCrash(evs, errs, r)
    ELSE IF ~Has(config, "request_settings")
    THEN SiCrash(evs, Append(errs, ErrorEntry("exception", cur)), r + 1)
    ELSE /\ errors' = Append(errs, ErrorEntry("exception", cur))
         /\ retries' = r + 1
         /\ IF BudgetExceeded(config, r + 1)
            THEN /\ spc' = "save"
                 /\ terminal' = "failed"
                 /\ events' = events \o evs
            ELSE /\ events' = events \o evs \o << SleepEvent(config.retry_delay) >>
                 /\ UNCHANGED <<spc, terminal>>

\* One iteration of the loop of scrape().
SiIteration ==
    /\ spc = "loop"
    /\ current_page_param # PyNone
    /\ SiCanFetch
    /\ \E resp \in SiResponses(config.type) :
         LET cur == current_page_param
             req == ReqEvent("loop", cur, resp)
             data == parse_response(config, resp)
             httpErr == Append(errors, ErrorEntry("HTTP", cur))
         IN
         IF ~Has(config, "base_url")
         THEN \* KeyError while the arguments of requests.get are built
              /\ SiExcept(<<>>, errors, cur, retries)
              /\ UNCHANGED <<current_page_param, total_results, articles,
                             parse_failure_log>>
         ELSE IF resp.status = 0
         THEN \* requests.get raised
              /\ SiExcept(<< req >>, errors, cur, retries)
              /\ UNCHANGED <<current_page_param, total_results, articles,
                             parse_failure_log>>
         ELSE IF ~Has(config, "name") /\ (resp.status # 200 \/ ~data.truthy)
         THEN \* log_error or parse_response raises KeyError, and log_error
              \* raises it again in the except block
              /\ SiCrash(<< req >>, errors, retries)
              /\ UNCHANGED <<current_page_param, total_results, articles,
                             parse_failure_log>>
         ELSE IF IsRateLimit(resp.status)
         THEN \* sleep Retry-After seconds, then `continue`
              /\ errors' = httpErr
              /\ events' = events \o << req, SleepEvent(RateLimitSecs(resp) * 1000) >>
              /\ UNCHANGED <<current_page_param, total_results, retries, articles,
                             spc, terminal, parse_failure_log>>
         ELSE IF resp.status # 200
         THEN \* any other status: `break`
              /\ errors' = httpErr
              /\ spc' = "save"
              /\ terminal' = "failed"
              /\ events' = Append(events, req)
              /\ UNCHANGED <<current_page_param, total_results, retries, articles,
                             parse_failure_log>>
         ELSE IF ~data.truthy
         THEN \* `if not data`: log "Invalid response format" and `break`
              /\ errors' =
                    Append(IF ParseRaises(config, resp)
                           THEN Append(errors, ErrorEntry("Parse error", cur))
                           ELSE errors,
                           ErrorEntry("Invalid response format", cur))
              /\ parse_failure_log' =
                    IF ParseRaises(config, resp)
                    THEN Append(parse_failure_log, debug_failed_parse(resp))
                    ELSE parse_failure_log
              /\ spc' = "save"
              /\ terminal' = "failed"
              /\ events' = Append(events, req)
              /\ UNCHANGED <<current_page_param, total_results, retries, articles>>
         ELSE \* the items are appended, then handle_pagination runs
              /\ articles' = articles \o ProcessItems(data.items)
              /\ UNCHANGED parse_failure_log
              /\ IF TotalFieldMissing(config)
                 THEN /\ SiExcept(<< req >>, errors, cur, retries)
                      /\ UNCHANGED <<current_page_param, total_results>>
                 ELSE IF BatchSizeMissing(config)
                 THEN /\ SiExcept(<< req >>, errors, cur, retries)
                      /\ total_results' = data.total
                      /\ UNCHANGED current_page_param
                 ELSE /\ current_page_param' = handle_pagination(config, cur, data)
                      /\ total_results' =
                            IF config.type = "offset" THEN data.total
                            ELSE total_results
                      /\ IF PaginationRaises(config, data)
                         THEN SiExcept(<< req >>, errors,
                                       AdvancedOffset(config, cur), retries)
                         ELSE IF ~Has(config, "request_settings")
                         THEN \* retries = 0, then KeyError at the sleep
                              SiExcept(<< req >>, errors,
                                       handle_pagination(config, cur, data), 0)
                         ELSE /\ retries' = 0
                              /\ events' = events \o << req, SleepEvent(config.delay) >>
                              /\ UNCHANGED <<errors, spc, terminal>>
    /\ UNCHANGED <<fnVars, artVars, peer, config, files>>

\* One file of save_results(): its content, and whether open() and
\* json.dump() went through.
FileWrite(file, content, ok) == [file |-> file, content |-> content, ok |-> ok]

\* save_results(): the articles file is written when there are articles,
\* then the errors file when there are errors.  Neither write is guarded:
\* an OSError of the first leaves save_results() before the second.
SiSave ==
    /\ spc = "save"
    /\ \E aok, eok \in BOOLEAN :
         LET wa == IF articles # <<>>
                   THEN << FileWrite("articles", articles, aok) >> ELSE <<>>
             araised == articles # <<>> /\ ~aok
             we == IF errors # <<>> /\ ~araised
                   THEN << FileWrite("errors", errors, eok) >> ELSE <<>>
             eraised == we # <<>> /\ ~eok
         IN  /\ files' = wa \o we
             /\ spc' = IF araised \/ eraised THEN "raised" ELSE "done"
    /\ UNCHANGED <<fnVars, artVars, peer, config, current_page_param, total_results,
                   retries, articles, errors, parse_failure_log, terminal, events>>

SiNext ==
    \/ SiLoopExit
    \/ SiIteration
    \/ SiSave

SpecSiLive == SiInit /\ [][SiNext]_vars

----------------------------------------------------------------------------
(* Two SiLive objects.  The variables config .. files and terminal are the *)
(* fields of the object whose scrape() is running, peer holds the object   *)
(* that is suspended; parse_failure.log is one file for both.              *)

\* The object that is running.
SelfId == 3 - peer.id

\* Mutant: the lists are attributes of the class, one for all objects.
ListOf_ClassAttribute(id) == [owner |-> "class", id |-> 0]

\* The list object that self.articles (and self.errors) of object id names:
\* __init__ binds a new list in every object.
ListOf(id) == [owner |-> "object", id |-> id]

\* The configurations of the two objects: one source, in either mode.
TwoConfigs == { Config("silive", t, 1) : t \in { "offset", "cursor" } }

TwoInit ==
    /\ config \in TwoConfigs
    /\ current_page_param = PyInt(config.initial_value)
    /\ total_results = PyNone
    /\ retries = 0
    /\ articles = <<>>
    /\ errors = <<>>
    /\ spc = "loop"
    /\ files = <<>>
    /\ parse_failure_log = <<>>
    /\ \E cfg \in TwoConfigs :
          peer = Session(2, cfg, PyInt(cfg.initial_value), PyNone, 0, <<>>, <<>>,
                         "loop", <<>>, "running")
    /\ terminal = "running"
    /\ events = <<>>
    /\ FnIdle
    /\ SaIdle
    /\ AsIdle

\* The running object is suspended and the other one, whose scrape() has
\* not returned, goes on.
SiSwitch ==
    /\ peer.id # 0
    /\ peer.spc \in { "loop", "save" }
    /\ NReq(events) <= MaxSwitchReq
    /\ LET shared == ListOf(peer.id) = ListOf(SelfId)
       IN  /\ peer' = Session(SelfId, config, current_page_param, total_results,
                              retries, articles, errors, spc, files, terminal)
           /\ config' = peer.config
           /\ current_page_param' = peer.current_page_param
           /\ total_results' = peer.total_results
           /\ retries' = peer.retries
           /\ articles' = IF shared THEN articles ELSE peer.articles
           /\ errors' = IF shared THEN errors ELSE peer.errors
           /\ spc' = peer.spc
           /\ files' = peer.files
           /\ terminal' = peer.terminal
    /\ UNCHANGED <<fnVars, artVars, parse_failure_log, events>>

TwoNext == SiNext \/ SiSwitch

SpecTwoSiLive == TwoInit /\ [][TwoNext]_vars

\* SiLive constructed with a configuration of BrokenConfigs.
SiBrokenInit ==
    /\ peer = NoPeer
    /\ config \in BrokenConfigs
    /\ current_page_param = PyInt(config.initial_value)
    /\ total_results = PyNone
    /\ retries = 0
    /\ articles = <<>>
    /\ errors = <<>>
    /\ spc = "loop"
    /\ files = <<>>
    /\ parse_failure_log = <<>>
    /\ terminal = "running"
    /\ events = <<>>
    /\ FnIdle
    /\ SaIdle
    /\ AsIdle

SpecSiLiveBroken == SiBrokenInit /\ [][SiNext]_vars

----------------------------------------------------------------------------
(* scrape_article.py: process_articles() and the end of main() *)

\* The values main() handles: the dict fetch_article returns (with or
\* without the key 'error'), and the list asyncio.gather returns.
Outcome(url, failed) ==
    [t |-> "dict", url |-> url, error |-> failed, items |-> <<>>]
BatchList(items) ==
    [t |-> "list", url |-> 0, error |-> FALSE, items |-> items]

\* The dict the task of article k returned.
OutcomeOf(k) == Outcome(filtered_articles[k].url, tasks[k] = "failed")

\* Mutant: every remaining task is gathered at once.
SaBatch_AllRemaining ==
    { k \in 1..Len(filtered_articles) : batch_i <= k }

\* tasks[i:i+concurrency], as indices.
SaBatch ==
    { k \in 1..Len(filtered_articles) : batch_i <= k /\ k < batch_i + concurrency }

\* `'error' in result`: a key of a dict, an element of a list.
HasError(result) ==
    IF result.t = "dict" THEN result.error
    ELSE \E k \in 1..Len(result.items) : result.items[k].t = "str"

SaInit ==
    /\ sa_pc = "gather"
    /\ \E n \in 0..MaxArticles : filtered_articles = [k \in 1..n |-> [url |-> k]]
    /\ concurrency \in 1..MaxConcurrency
    /\ semaphore = concurrency
    /\ tasks = [k \in 1..Len(filtered_articles) |-> "pending"]
    /\ batch_i = 1
    /\ results = <<>>
    /\ successful = <<>>
    /\ scrape_errors = <<>>
    /\ terminal = "running"
    /\ events = <<>>
    /\ FnIdle
    /\ SiIdle
    /\ AsIdle

\* fetch_article: a task of the gathered batch enters `async with semaphore`.
SaAcquire(k) ==
    /\ sa_pc = "gather"
    /\ k \in SaBatch
    /\ tasks[k] = "pending"
    /\ semaphore > 0
    /\ tasks' = [tasks EXCEPT ![k] = "running"]
    /\ semaphore' = semaphore - 1
    /\ UNCHANGED <<sa_pc, filtered_articles, concurrency, batch_i, results,
                   successful, scrape_errors, fnVars, siVars, asVars, terminal,
                   events>>

\* fetch_article: the request and the parse end, with the article's dict
\* or, from the except block, with the dict that carries 'error'; the
\* permit is given back.
SaFetch(k) ==
    /\ sa_pc = "gather"
    /\ k \in SaBatch
    /\ tasks[k] = "running"
    /\ \E o \in { "fetched", "failed" } : tasks' = [tasks EXCEPT ![k] = o]
    /\ semaphore' = semaphore + 1
    /\ UNCHANGED <<sa_pc, filtered_articles, concurrency, batch_i, results,
                   successful, scrape_errors, fnVars, siVars, asVars, terminal,
                   events>>

\* results.append(await asyncio.gather(*batch)), the sleep, the next i.
SaGather ==
    /\ sa_pc = "gather"
    /\ SaBatch # {}
    /\ \A k \in SaBatch : tasks[k] \in { "fetched", "failed" }
    /\ results' = Append(results,
           BatchList([j \in 1..Cardinality(SaBatch) |-> OutcomeOf(batch_i + j - 1)]))
    /\ batch_i' = batch_i + concurrency
    /\ UNCHANGED <<sa_pc, filtered_articles, concurrency, semaphore, tasks,
                   successful, scrape_errors, fnVars, siVars, asVars, terminal,
                   events>>

\* The range of the for loop is used up: `return results`.
SaReturn ==
    /\ sa_pc = "gather"
    /\ batch_i > Len(filtered_articles)
    /\ sa_pc' = "main"
    /\ UNCHANGED <<filtered_articles, concurrency, semaphore, tasks, batch_i,
                   results, successful, scrape_errors, fnVars, siVars, asVars,
                   terminal, events>>

\* main(): each element of results goes to errors or to successful, and
\* the two lists are written.
SaMain ==
    /\ sa_pc = "main"
    /\ successful' = SelectSeq(results, LAMBDA result : ~HasError(result))
    /\ scrape_errors' = SelectSeq(results, HasError)
    /\ sa_pc' = "done"
    /\ UNCHANGED <<filtered_articles, concurrency, semaphore, tasks, batch_i,
                   results, fnVars, siVars, asVars, terminal, events>>

SaNext ==
    \/ \E k \in 1..Len(filtered_articles) : SaAcquire(k)
    \/ \E k \in 1..Len(filtered_articles) : SaFetch(k)
    \/ SaGather
    \/ SaReturn
    \/ SaMain

SpecScrapeArticle == SaInit /\ [][SaNext]_vars

----------------------------------------------------------------------------
(* article_scraper.py: ArticleScraper.run() *)

\* article.text as process_batch sees it in result['text']: '' (0), the
\* parsed text (1), or "Article content could not be extracted" (2).
NoText == PyStr(0)
ParsedText == PyStr(1)
NotExtractedText == PyStr(2)

\* How one fetch_article ends: status 200 with text, status 200 with no
\* text, another status, an exception whose message holds 'newspaper', any
\* other exception.
FetchEnds == { "text", "notext", "status", "exc_newspaper", "exc" }

\* result['text'] when fetch_article returns.
ResultText(end) ==
    CASE end = "text" -> ParsedText
      [] end = "exc_newspaper" -> NotExtractedText
      [] OTHER -> NoText

\* Whether fetch_article appends the url to self.failed_urls.
AppendsFailedUrl(end) == end \in { "status", "exc_newspaper", "exc" }

\* The dict fetch_article returns (date and title are copied through).
Result(link, text) == [link |-> link, text |-> text]

\* A task of process_batch: its position and the text of its result.
Future(st, text) == [st |-> st, text |-> text]

\* aiohttp.TCPConnector(limit_per_host=2): the connections open to one host
\* at a time.  Every url of the input is taken to be on the same host, the
\* case in which the connector restricts most.
limit_per_host == 2

\* The tasks that hold a connection.
Connected == { k \in 1..Len(futures) : futures[k].st = "connected" }

\* batch_size = self.max_concurrent * 2
batch_size == max_concurrent * 2

\* articles[i:i+batch_size], as indices.
AsBatch ==
    { k \in 1..Len(input_articles) : batch_start <= k /\ k < batch_start + batch_size }

AsInit ==
    /\ as_pc = "batch"
    /\ \E n \in 0..MaxArticles : input_articles = [k \in 1..n |-> [link |-> k]]
    /\ max_concurrent \in 1..(MaxConcurrency - 1)
    /\ batch_start = 1
    /\ futures = [k \in 1..Len(input_articles) |-> Future("pending", NoText)]
    /\ completed = <<>>
    /\ scraper_results = <<>>
    /\ failed_urls = <<>>
    /\ request_count = 0
    /\ written = <<>>
    /\ terminal = "running"
    /\ events = <<>>
    /\ FnIdle
    /\ SiIdle
    /\ SaIdle

\* fetch_article up to its first await: the rate-limit sleep, which the
\* clock may ask for once a request has been counted, or session.get.
AsBegin(k) ==
    /\ as_pc = "batch"
    /\ k \in AsBatch
    /\ futures[k].st = "pending"
    /\ \E st \in { "sleeping", "requesting" } :
         /\ st = "sleeping" => request_count > 0
         /\ futures' = [futures EXCEPT ![k] = Future(st, NoText)]
    /\ UNCHANGED <<as_pc, input_articles, max_concurrent, batch_start, completed,
                   scraper_results, failed_urls, request_count, written,
                   fnVars, siVars, saVars, terminal, events>>

\* The rate-limit sleep ends.
AsWake(k) ==
    /\ as_pc = "batch"
    /\ futures[k].st = "sleeping"
    /\ futures' = [futures EXCEPT ![k] = Future("requesting", NoText)]
    /\ UNCHANGED <<as_pc, input_articles, max_concurrent, batch_start, completed,
                   scraper_results, failed_urls, request_count, written,
                   fnVars, siVars, saVars, terminal, events>>

\* session.get: the connector hands out a connection.
AsConnect(k) ==
    /\ as_pc = "batch"
    /\ futures[k].st = "requesting"
    /\ Cardinality(Connected) < limit_per_host
    /\ futures' = [futures EXCEPT ![k] = Future("connected", NoText)]
    /\ UNCHANGED <<as_pc, input_articles, max_concurrent, batch_start, completed,
                   scraper_results, failed_urls, request_count, written,
                   fnVars, siVars, saVars, terminal, events>>

\* fetch_article from the response to its return; a task still waiting for
\* a connection can only end in an exception (the timeout).
AsRespond(k) ==
    /\ as_pc = "batch"
    /\ futures[k].st \in { "requesting", "connected" }
    /\ \E end \in FetchEnds :
         /\ futures[k].st = "requesting" => end \in { "exc_newspaper", "exc" }
         /\ futures' = [futures EXCEPT ![k] = Future("finished", ResultText(end))]
         /\ failed_urls' = IF AppendsFailedUrl(end)
                           THEN Append(failed_urls, input_articles[k].link)
                           ELSE failed_urls
    /\ request_count' = request_count + 1
    /\ completed' = Append(completed, k)
    /\ UNCHANGED <<as_pc, input_articles, max_concurrent, batch_start,
                   scraper_results, written, fnVars, siVars, saVars, terminal,
                   events>>

\* process_batch: the next completed future; `if result['text']`.
AsCollect ==
    /\ as_pc = "batch"
    /\ completed # <<>>
    /\ LET k == Head(completed)
           result == Result(input_articles[k].link, futures[k].text)
       IN  /\ scraper_results' = IF Truthy(result.text)
                                 THEN Append(scraper_results, result)
                                 ELSE scraper_results
           /\ futures' = [futures EXCEPT ![k] = Future("collected", futures[k].text)]
    /\ completed' = Tail(completed)
    /\ UNCHANGED <<as_pc, input_articles, max_concurrent, batch_start, failed_urls,
                   request_count, written, fnVars, siVars, saVars, terminal,
                   events>>

\* process_batch returns; the delay between batches; the next i.
AsBatchDone ==
    /\ as_pc = "batch"
    /\ AsBatch # {}
    /\ \A k \in AsBatch : futures[k].st = "collected"
    /\ batch_start' = batch_start + batch_size
    /\ UNCHANGED <<as_pc, input_articles, max_concurrent, futures, completed,
                   scraper_results, failed_urls, request_count, written,
                   fnVars, siVars, saVars, terminal, events>>

\* The range of the for loop is used up.
AsLoopExit ==
    /\ as_pc = "batch"
    /\ batch_start > Len(input_articles)
    /\ as_pc' = "save"
    /\ UNCHANGED <<input_articles, max_concurrent, batch_start, futures, completed,
                   scraper_results, failed_urls, request_count, written,
                   fnVars, siVars, saVars, terminal, events>>

\* The output file, and failed_urls.log when there are failed urls.
AsSave ==
    /\ as_pc = "save"
    /\ written' = << [file |-> "output", urls |-> [k \in 1..Len(scraper_results)
                                                    |-> scraper_results[k].link]] >>
                  \o (IF failed_urls # <<>>
                      THEN << [file |-> "failed_urls.log", urls |-> failed_urls] >>
                      ELSE <<>>)
    /\ as_pc' = "done"
    /\ UNCHANGED <<input_articles, max_concurrent, batch_start, futures, completed,
                   scraper_results, failed_urls, request_count, fnVars, siVars,
                   saVars, terminal, events>>

AsNext ==
    \/ \E k \in 1..Len(input_articles) : AsBegin(k)
    \/ \E k \in 1..Len(input_articles) : AsWake(k)
    \/ \E k \in 1..Len(input_articles) : AsConnect(k)
    \/ \E k \in 1..Len(input_articles) : AsRespond(k)
    \/ AsCollect
    \/ AsBatchDone
    \/ AsLoopExit
    \/ AsSave

SpecArticleScraper == AsInit /\ [][AsNext]_vars

----------------------------------------------------------------------------
(* Reading the history *)

\* The requests of a history, in the order they were issued.
Reqs(h) == SelectSeq(h, LAMBDA ev : ev.e = "req")
LoopReqs(h) == SelectSeq(h, LAMBDA ev : ev.e = "req" /\ ev.phase = "loop")

\* A request of a function scraper whose result the driver took as a page.
FnOk(ev) == ev.resp.status = 200 /\ ev.resp.body.kind \in { "html", "json" }

\* A request whose fetch raised instead of returning.
FnRaised(s, ev) == ev.phase = "loop" /\ s \in TokenScrapers /\ FetchRaises(s, ev.resp)

\* A request whose fetch returned the failure value to the loop.
FnFailed(s, ev) == ~FnOk(ev) /\ ~FnRaised(s, ev)

\* The records a function scraper extracts from a request's page.
RecordsOf(s, ev) == IF FnOk(ev) THEN Extract(s, ev.resp.body.items) ELSE <<>>

\* What a request adds to the accumulated list: the loop's pages, and for
\* cville_weekly also the first page.
Contribution(s, ev) ==
    IF ev.e # "req" THEN <<>>
    ELSE IF ev.phase = "initial" /\ s # "cville_weekly" THEN <<>>
    ELSE RecordsOf(s, ev)

RECURSIVE Accumulated(_, _)
Accumulated(s, h) ==
    IF h = <<>> THEN <<>>
    ELSE Accumulated(s, SubSeq(h, 1, Len(h) - 1)) \o Contribution(s, h[Len(h)])

\* The last (max_retries + 1) requests of the loop all failed.
TailFailed(h) ==
    LET r == LoopReqs(h)
    IN  /\ Len(r) >= max_retries + 1
        /\ \A i \in (Len(r) - max_retries)..Len(r) : FnFailed(scraper, r[i])

----------------------------------------------------------------------------
(* Claims about the function scrapers (Spec) *)

\* C1: in every page-number crawl, over all requests of one run of main(),
\* the page asked for changes only in steps of +1, and no page is requested
\* again once a request for it has succeeded.
C1_PagesNeverRevisited ==
    scraper \in PageScrapers =>
        LET r == Reqs(events)
        IN  /\ \A i \in 1..(Len(r) - 1) :
                  r[i + 1].cursor.v \in { r[i].cursor.v, r[i].cursor.v + 1 }
            /\ \A i, j \in 1..Len(r) :
                  (i < j /\ FnOk(r[i])) => r[j].cursor # r[i].cursor

\* C2: a page-number crawl that starts at page 1 and whose transport answers
\* the successive requests with two pages of records and then a page with no
\* records issues exactly 3 fetches, and saves exactly the records of the
\* first two pages.
C2_TwoPagesThenEmpty ==
    LET r == Reqs(events)
    IN  ( /\ scraper \in { "bx_times", "chicago_tribune", "daily_herald" }
          /\ Len(r) >= 3
          /\ RecordsOf(scraper, r[1]) # <<>>
          /\ RecordsOf(scraper, r[2]) # <<>>
          /\ FnOk(r[3]) /\ RecordsOf(scraper, r[3]) = <<>> )
        => /\ Len(r) = 3
           /\ pc \in { "save", "done" }
           /\ pc = "done" =>
                saved = << RecordsOf(scraper, r[1]) \o RecordsOf(scraper, r[2]) >>

\* C3: when the fetches of one cursor fail until the retry budget
\* (max_retries = 3) is exceeded, the loop stops in the failed terminal state
\* and the saved output holds every record accumulated from the pages that
\* succeeded before.
C3_FailedRunKeepsRecords ==
    TailFailed(events) =>
        /\ pc \in { "save", "done" }
        /\ terminal = "failed"
        /\ all_articles = Accumulated(scraper, events)
        /\ pc = "done" => saved = << Accumulated(scraper, events) >>

C3_Witness ==
    /\ TailFailed(events)
    /\ pc = "done"
    /\ Len(saved) = 1
    /\ Len(saved[1]) >= 2

\* C4: every run of main() that stops has performed the save step exactly
\* once, including a run whose preliminary fetch of the first page fails.
C4_SavedOnceWhenStopped ==
    pc = "done" => Len(saved) = 1

\* C5: in the cursor-token loops, a successful page whose continuation token
\* is empty or equal to the token sent is the last request, whatever records
\* it carried; after any other successful page the next cursor is the new
\* token, which differs from the token that produced it.
C5_TokenGuard ==
    scraper \in TokenScrapers =>
        LET r == Reqs(events)
        IN  \A i \in 1..Len(r) :
                FnOk(r[i]) =>
                    LET new == r[i].resp.body.handle
                        sent == r[i].cursor
                    IN  IF ~Truthy(new) \/ new = sent
                        THEN /\ i = Len(r)
                             /\ pc \in { "save", "done" }
                             /\ terminal = "exhausted"
                        ELSE /\ new # sent
                             /\ i < Len(r) => r[i + 1].cursor = new
                             /\ i = Len(r) => (page_handle = new /\ pc = "loop")

C5_Witness ==
    /\ scraper \in TokenScrapers
    /\ pc = "done"
    /\ LET r == Reqs(events)
       IN  /\ Len(r) >= 2
           /\ FnOk(r[Len(r)])
           /\ Truthy(r[Len(r)].cursor)
           /\ r[Len(r)].resp.body.handle = r[Len(r)].cursor
           /\ RecordsOf(scraper, r[Len(r)]) # <<>>

\* A step that issues a request which fails while the budget is not exhausted.
C8_RetryStep ==
    /\ pc = "loop"
    /\ NReq(events') = NReq(events) + 1
    /\ FnFailed(scraper, Reqs(events')[NReq(events')])
    /\ retry_count < max_retries

\* A step that issues a request right after a failed request of the loop.
C8_AfterFailure ==
    /\ NReq(events') = NReq(events) + 1
    /\ NReq(events) >= 1
    /\ Reqs(events)[NReq(events)].phase = "loop"
    /\ FnFailed(scraper, Reqs(events)[NReq(events)])

\* C8: when a fetch fails and the retry budget is not exhausted, the next
\* request uses the cursor of the failed one, the accumulated list is
\* unchanged, and the only state change is retry_count growing by 1.
C8_FailedFetchRetriesSameCursor ==
    [][ /\ C8_RetryStep =>
            /\ retry_count' = retry_count + 1
            /\ UNCHANGED <<scraper, pc, page, page_handle, max_pages,
                           consecutive_empty_pages, all_articles, saved>>
        /\ C8_AfterFailure =>
            Reqs(events')[NReq(events')].cursor = Reqs(events)[NReq(events)].cursor
      ]_vars

C8_Witness ==
    /\ pc = "loop"
    /\ retry_count = 2
    /\ all_articles # <<>>
    /\ NReq(events) >= 3
    /\ ~FnOk(Reqs(events)[NReq(events)])
    /\ ~FnOk(Reqs(events)[NReq(events) - 1])

\* C11: between any two consecutive requests of one run there is a sleep,
\* the politeness delay after a successful page or a backoff delay after a
\* failure; no two requests are issued back to back.
C11_SleepBetweenRequests ==
    \A i \in 1..(Len(events) - 1) :
        events[i].e = "req" =>
            /\ events[i + 1].e = "sleep"
            /\ events[i + 1].ms \in
                  IF FnOk(events[i]) THEN { PoliteMs(scraper) }
                  ELSE { BackoffMs(k) : k \in 1..max_retries }

\* C17: a response with an HTTP error status outside the retry set is never
\* followed by another request for the same cursor.
C17_OtherStatusNotReissued ==
    LET r == Reqs(events)
    IN  \A i \in 1..(Len(r) - 1) :
            (r[i].resp.status \notin (RetrySet \cup { 0, 200 }))
                => r[i + 1].cursor # r[i].cursor

\* C18: the fetch functions never raise: every failed fetch comes back to
\* the loop as None, main() stays in the loop or goes on to the save step.
C18_FetchNeverRaises ==
    LET r == LoopReqs(events)
    IN  /\ \A i \in 1..Len(r) : ~FnOk(r[i]) => FnFailed(scraper, r[i])
        /\ pc \in { "initial", "loop", "save", "done" }

\* A step of the page-number loop that issues a request.
PageStep ==
    /\ scraper \in PageScrapers
    /\ pc = "loop"
    /\ NReq(events') = NReq(events) + 1

\* The request a step issued.
StepReq == Reqs(events')[NReq(events')]

\* A page the loop took as fetched and that yields no record.
EmptyPage(ev) == FnOk(ev) /\ RecordsOf(scraper, ev) = <<>>

\* C25: in cville_weekly a fetched page with zero records stops the crawl if
\* and only if it is the 3rd consecutive such page: a page with records
\* resets the counter to 0, a failed fetch leaves it unchanged, an empty
\* page below the limit advances the page by 1, and while the loop runs the
\* counter stays below 3.
C25_Step ==
    (PageStep /\ scraper = "cville_weekly") =>
        IF ~FnOk(StepReq)
        THEN /\ consecutive_empty_pages' = consecutive_empty_pages
             /\ page' = page
        ELSE IF ~EmptyPage(StepReq)
        THEN /\ consecutive_empty_pages' = 0
             /\ page' = page + 1
             /\ pc' = "loop"
        ELSE /\ consecutive_empty_pages' = consecutive_empty_pages + 1
             /\ (pc' = "save") <=> (consecutive_empty_pages = 2)
             /\ pc' = "save" => (terminal' = "exhausted" /\ page' = page)
             /\ pc' # "save" => (pc' = "loop" /\ page' = page + 1)

C25_ThirdEmptyPageStops ==
    /\ []((scraper = "cville_weekly" /\ pc = "loop") =>
              consecutive_empty_pages < max_empty_pages)
    /\ [][C25_Step]_vars

C25_Witness ==
    /\ scraper = "cville_weekly"
    /\ pc = "done"
    /\ consecutive_empty_pages = 3
    /\ terminal = "exhausted"
    /\ all_articles # <<>>

\* C26: in bx_times, chicago_tribune and daily_herald a page of the loop
\* that is fetched and yields zero records ends the crawl at once: it is the
\* last request, the page cursor stays on it, and what is saved is what had
\* been accumulated.
C26_EmptyPageEndsCrawl ==
    scraper \in { "bx_times", "chicago_tribune", "daily_herald" } =>
        LET r == LoopReqs(events)
        IN  \A i \in 1..Len(r) :
                EmptyPage(r[i]) =>
                    /\ i = Len(r)
                    /\ pc \in { "save", "done" }
                    /\ terminal = "exhausted"
                    /\ page = r[i].cursor.v
                    /\ all_articles = Accumulated(scraper, events)
                    /\ pc = "done" => saved = << all_articles >>

C26_Witness ==
    /\ scraper \in { "bx_times", "chicago_tribune", "daily_herald" }
    /\ pc = "done"
    /\ all_articles # <<>>
    /\ LET r == LoopReqs(events)
       IN  Len(r) >= 2 /\ EmptyPage(r[Len(r)])

\* The pages the loop has asked for are within the cap, and the cursor is
\* at most one past it.
C27_Inv ==
    (scraper \in PageScrapers /\ pc \in { "loop", "save", "done" }
        /\ terminal # "aborted") =>
        /\ page <= max_pages + 1
        /\ \A i \in 1..Len(LoopReqs(events)) :
              LoopReqs(events)[i].cursor.v <= max_pages

\* C27: the loop never requests a page greater than max_pages; when the
\* cursor reaches max_pages + 1 the crawl stops and goes on to the save
\* step without another request; the cursor never exceeds max_pages + 1.
C27_NeverPastCap ==
    /\ []C27_Inv
    /\ [][ (scraper \in PageScrapers /\ pc = "loop" /\ page = max_pages + 1)
              => (pc' = "save" /\ terminal' = "exhausted" /\ events' = events
                  /\ all_articles' = all_articles) ]_vars

C27_Witness ==
    /\ scraper \in PageScrapers
    /\ pc = "done"
    /\ page = max_pages + 1
    /\ Len(LoopReqs(events)) >= 2
    /\ saved = << all_articles >>
    /\ all_articles # <<>>

----------------------------------------------------------------------------
(* Claims about run_scraper (SpecRunScraper) *)

\* No exception has gone past run_scraper, and a name that is not
\* registered has invoked nothing.
C23_Contained ==
    /\ pc # "propagated"
    /\ scraper \notin SCRAPER_REGISTRY =>
          /\ pc \in { "run_scraper", "returned" }
          /\ events = <<>>
          /\ saved = <<>>

\* C23: run_scraper returns normally for every input: a name that is not in
\* the registry invokes no scraper, and when the invoked scraper returns or
\* raises, run_scraper returns and the exception is not propagated.
C23_RunScraperAlwaysReturns ==
    /\ []C23_Contained
    /\ [][ (pc \in { "done", "raised" }) => (pc' = "returned") ]_vars

C23_Witness ==
    /\ pc = "returned"
    /\ terminal = "raised"
    /\ all_articles # <<>>

----------------------------------------------------------------------------
(* Claims about the extractors (SpecExtract) *)

\* C12: for every page, no item whose link is missing or empty is appended
\* to the returned list, and every returned record has a non-empty title and
\* a non-empty link.
C12_LinklessItemsDropped ==
    pc = "extracted" =>
        LET items == events[1].resp.body.items
            linked == { i \in 1..Len(items) : Truthy(items[i].link) }
        IN  /\ Len(all_articles) <= Cardinality(linked)
            /\ \A k \in 1..Len(all_articles) :
                  /\ Truthy(all_articles[k].title)
                  /\ Truthy(all_articles[k].link)
                  /\ \E i \in linked :
                        /\ all_articles[k].title = items[i].title
                        /\ all_articles[k].link
                               \in { items[i].link, WithScheme(items[i].link) }

C12_Witness ==
    /\ pc = "extracted"
    /\ Len(all_articles) = 1
    /\ LET items == events[1].resp.body.items
       IN  /\ Len(items) = 2
           /\ \E i \in 1..2 : /\ ~Truthy(items[i].link)
                               /\ Truthy(items[i].title)
                               /\ Truthy(items[i].date)
                               /\ Truthy(items[i].body)

----------------------------------------------------------------------------
(* Claims about SiLive (SpecSiLive) *)

\* A request of SiLive whose body decoded to a non-empty value.
SiDecoded(ev) == ev.resp.status = 200 /\ parse_response(config, ev.resp).truthy

\* A request of SiLive whose iteration ran to its end without an exception.
SiOk(ev) ==
    /\ SiDecoded(ev)
    /\ ~PaginationRaises(config, parse_response(config, ev.resp))
    /\ ~TotalFieldMissing(config)
    /\ ~BatchSizeMissing(config)
    /\ Has(config, "request_settings")

\* C6: in cursor mode, a successful response whose continuation token is
\* empty or equal to the token sent is the last request of the crawl.
C6_CursorHaltsOnRepeatedToken ==
    config.type = "cursor" =>
        LET r == Reqs(events)
        IN  \A i \in 1..Len(r) :
                SiOk(r[i]) =>
                    LET new == parse_response(config, r[i].resp).token
                        sent == build_params(config, r[i].cursor)
                    IN  (~Truthy(new) \/ new = sent) => i = Len(r)

\* C7: in offset mode, after each successful page the offset is advanced by
\* batch_size, and when the advanced offset is greater than or equal to the
\* total that response reports, no further request is issued.
C7_OffsetAdvanceAndStop ==
    config.type = "offset" =>
        LET r == Reqs(events)
        IN  \A i \in 1..Len(r) :
                SiDecoded(r[i]) =>
                    LET total == parse_response(config, r[i].resp).total
                        adv == r[i].cursor.v + config.batch_size
                    IN  IF total.t # "None" /\ adv >= total.v
                        THEN /\ i = Len(r)
                             /\ current_page_param = PyNone
                        ELSE /\ i < Len(r) => r[i + 1].cursor = PyInt(adv)
                             /\ i = Len(r) => current_page_param = PyInt(adv)

C7_Witness ==
    /\ config.type = "offset"
    /\ spc = "done"
    /\ current_page_param = PyNone
    /\ LET r == Reqs(events)
       IN  /\ Len(r) >= 2
           /\ SiOk(r[Len(r)])
           /\ r[Len(r)].cursor.v > 0
           /\ r[Len(r)].cursor.v + config.batch_size
                 = parse_response(config, r[Len(r)].resp).total.v

\* A response body that cannot be decoded: not JSON, and no wrapper that
\* parse_response recovers.
SiDecodeFailure(ev) ==
    /\ ev.resp.status = 200
    /\ ev.resp.kind # "json"
    /\ ~parse_response(config, ev.resp).truthy

\* C9: when a response body cannot be decoded, the driver increments the
\* failure counter and retries the same cursor; it reaches the failed
\* terminal state only after the budget is exceeded.
C9_DecodeFailureRetried ==
    LET r == Reqs(events)
    IN  (Len(r) >= 1 /\ SiDecodeFailure(r[Len(r)])) =>
            /\ retries >= 1
            /\ terminal = "failed" => retries > config.max_retries

\* C10: against a transport that never succeeds for the current cursor, the
\* number of attempts is bounded by the retry budget: no cursor sees more
\* than max_retries + 1 requests in an unbroken run of non-successes.
C10_AttemptsBoundedByBudget ==
    LET r == Reqs(events)
    IN  \A i, j \in 1..Len(r) :
            (i <= j /\ \A k \in i..j : (~SiOk(r[k]) /\ r[k].cursor = r[i].cursor))
                => j - i + 1 <= config.max_retries + 1

\* The mapped fields of a processed item are all non-empty.
SiComplete(rec) == Truthy(rec.title) /\ Truthy(rec.link) /\ Truthy(rec.date)

\* C13: an item is in the accumulated articles, and in the flushed articles
\* file, only if every mapped field resolved to a non-empty value.
C13_OnlyCompleteItemsKept ==
    /\ \A k \in 1..Len(articles) : SiComplete(articles[k])
    /\ \A f \in 1..Len(files) :
          files[f].file = "articles" =>
              \A k \in 1..Len(files[f].content) : SiComplete(files[f].content[k])

\* C14: for every configuration, a body that is valid JSON decodes to its
\* value, and a body that is not JSON but holds JSON.parse('<s>') with <s>
\* valid JSON decodes to the value of <s> and is not reported as a failure.
C14_ShapesTriedInOrder ==
    LET r == Reqs(events)
    IN  \A i \in 1..Len(r) :
            (r[i].resp.status = 200
                /\ r[i].resp.kind \in { "json", "wrapped", "wrapped_cut" })
            => /\ parse_response(config, r[i].resp) = r[i].resp.data
               /\ r[i].resp.kind # "json" =>
                     \A k \in 1..Len(errors) :
                         errors[k].error
                            \notin { "Parse error", "Invalid response format" }

\* C15: whenever a body cannot be decoded, the parse-failure log holds an
\* entry with that raw body, whether or not the wrapper was found.
C15_DecodeFailureLogged ==
    LET r == Reqs(events)
    IN  \A i \in 1..Len(r) :
            SiDecodeFailure(r[i]) =>
                \E k \in 1..Len(parse_failure_log) :
                    parse_failure_log[k].raw = r[i].resp

\* C16: save_results persists the two streams independently: when the
\* write of the articles fails the errors are still written, and when the
\* write of the errors fails the articles file is there.
C16_StreamsPersistedIndependently ==
    LET Failed(name) ==
            \E k \in 1..Len(files) : files[k].file = name /\ ~files[k].ok
        Kept(name, content) ==
            \E k \in 1..Len(files) : files[k] = FileWrite(name, content, TRUE)
    IN  spc \in { "done", "raised" } =>
            /\ (Failed("articles") /\ errors # <<>>) => Kept("errors", errors)
            /\ (Failed("errors") /\ articles # <<>>) => Kept("articles", articles)

----------------------------------------------------------------------------
(* Claims about scrape_article.py (SpecScrapeArticle) *)

\* The dicts a written list holds, as elements or inside a nested list.
SaDicts(out) ==
    UNION { IF out[k].t = "dict" THEN { out[k] }
            ELSE { out[k].items[j] : j \in 1..Len(out[k].items) } :
            k \in 1..Len(out) }

\* The elements of a written list.
SaElements(out) == { out[k] : k \in 1..Len(out) }

\* C19: when the run is done, every input article has exactly one outcome,
\* which is an element of the errors output when its fetch failed and an
\* element of the successful output otherwise; no failed fetch is written
\* to the successful output.
C19_OutcomesSplitByError ==
    sa_pc = "done" =>
        /\ Len(successful) + Len(scrape_errors) = Len(filtered_articles)
        /\ \A k \in 1..Len(filtered_articles) :
              IF OutcomeOf(k).error
              THEN /\ OutcomeOf(k) \in SaElements(scrape_errors)
                   /\ OutcomeOf(k) \notin SaDicts(successful)
              ELSE /\ OutcomeOf(k) \in SaElements(successful)
                   /\ OutcomeOf(k) \notin SaDicts(scrape_errors)

----------------------------------------------------------------------------
(* Claims about article_scraper.py (SpecArticleScraper) *)

\* How often a url is in a list.
Count(seq, x) == Cardinality({ k \in 1..Len(seq) : seq[k] = x })

\* C20: after run() every input url is accounted for exactly once: in
\* results or in failed_urls, never in both and never in neither.
C20_EveryUrlAccountedOnce ==
    as_pc = "done" =>
        \A i \in 1..Len(input_articles) :
            LET url == input_articles[i].link
                links == [k \in 1..Len(scraper_results) |-> scraper_results[k].link]
            IN  Count(links, url) + Count(failed_urls, url) = 1

\* The fetch_article tasks in flight: begun and not yet returned.
AsInFlight ==
    { k \in 1..Len(futures) :
        futures[k].st \in { "sleeping", "requesting", "connected" } }

\* C21: the number of fetch_article tasks in flight never exceeds
\* max_concurrent.
C21_InFlightWithinMaxConcurrent ==
    as_pc # "idle" => Cardinality(AsInFlight) <= max_concurrent

----------------------------------------------------------------------------
(* Claims about scrape_article.py, continued *)

\* The batch an article belongs to, counted from 0.
SaBatchOf(k) == (k - 1) \div concurrency

\* The fetches that hold the semaphore.
SaRunning == { k \in 1..Len(tasks) : tasks[k] = "running" }

\* C22: the fetches holding the semaphore never outnumber the configured
\* concurrency, and no fetch of a batch has started while a fetch of an
\* earlier batch has not returned its outcome.
C22_BoundedAndBatchOrdered ==
    sa_pc # "idle" =>
        /\ Cardinality(SaRunning) <= concurrency
        /\ semaphore + Cardinality(SaRunning) = concurrency
        /\ \A j, k \in 1..Len(tasks) :
              (SaBatchOf(j) < SaBatchOf(k) /\ tasks[k] # "pending")
                  => tasks[j] \in { "fetched", "failed" }

C22_Witness ==
    /\ sa_pc = "gather"
    /\ concurrency = 2
    /\ Len(tasks) >= 3
    /\ tasks[1] \in { "fetched", "failed" }
    /\ tasks[2] \in { "fetched", "failed" }
    /\ tasks[3] = "running"
    /\ semaphore = 1

----------------------------------------------------------------------------
(* Claims about SiLive, continued *)

\* C24: a configuration with a required key missing is surfaced as a fatal
\* error before the first request: no request is ever issued with it, and
\* it is never counted and logged as a failure of a page.
C24_BrokenConfigFatalAtOnce ==
    config.missing # "none" =>
        /\ NReq(events) = 0
        /\ retries = 0
        /\ errors = <<>>
        /\ spc \in { "loop", "raised" }

\* C28: in offset mode, for every configuration, the offset of any request
\* issued after a successful page is greater than the offset of that page.
C28_OffsetStrictlyIncreases ==
    config.type = "offset" =>
        LET r == Reqs(events)
        IN  \A i, j \in 1..Len(r) :
                (i < j /\ SiOk(r[i])) => r[j].cursor.v > r[i].cursor.v

\* C29: every entry appended to self.errors has as its context the cursor
\* that was sent with the request of the iteration that appends it.
C29_ErrorContextIsSentCursor ==
    [][ \A k \in (Len(errors) + 1)..Len(errors') :
            errors'[k].context = current_page_param ]_vars

\* C30: an iteration that ends in the exception handler leaves the cursor
\* and the accumulated articles as they were before the request.
C30_ExceptionLeavesStateUnchanged ==
    [][ (spc = "loop" /\ retries' = retries + 1) =>
            /\ current_page_param' = current_page_param
            /\ articles' = articles ]_vars

----------------------------------------------------------------------------
(* Claims about termination and the retry budget *)

\* C31: a cursor-token crawl against a transport that always succeeds and a
\* server that draws its continuation tokens from a finite set eventually
\* reaches a terminal state.
C31_TokenCrawlTerminates == <>(terminal # "running")

\* The variant of the page-number loop: the pages left, each worth a full
\* retry budget, less the failures already counted on the current page.
Rank == (max_pages + 1 - page) * (max_retries + 1) - retry_count

\* C32: every page-number crawl terminates for every behaviour of the
\* transport: each iteration of the loop advances the page towards
\* max_pages, uses up one unit of the retry budget, or stops the loop, so a
\* non-negative variant decreases with every iteration.
C32_PageCrawlTerminates ==
    /\ []((scraper \in PageScrapers /\ pc = "loop") => Rank >= 0)
    /\ [][ (scraper \in PageScrapers /\ pc = "loop")
              => (pc' # "loop" \/ Rank' < Rank) ]_vars

C32_Witness ==
    /\ scraper \in PageScrapers
    /\ pc = "done"
    /\ terminal = "exhausted"
    /\ page = max_pages + 1
    /\ \E i \in 1..Len(LoopReqs(events)) : FnFailed(scraper, LoopReqs(events)[i])

\* The number of requests at the end of the loop's history that failed.
FailTail(r) ==
    CHOOSE k \in 0..Len(r) :
        /\ \A i \in (Len(r) - k + 1)..Len(r) : FnFailed(scraper, r[i])
        /\ k < Len(r) => ~FnFailed(scraper, r[Len(r) - k])

\* C33: the consecutive-failure counter stays within 0..max_retries, the
\* sleep before the k-th consecutive retry is 2^k seconds, and every backoff
\* sleep is one of 2, 4, 8 seconds.
C33_BackoffIsPowerOfTwo ==
    /\ [](retry_count \in 0..max_retries)
    /\ [](\A i \in 2..Len(events) :
              (events[i].e = "sleep" /\ FnFailed(scraper, events[i - 1]))
                  => events[i].ms \in { 2000, 4000, 8000 })
    /\ [][ (retry_count' = retry_count + 1)
              => (events'[Len(events')] = SleepEvent((2 ^ retry_count') * 1000)) ]_vars

C33_Witness ==
    /\ pc = "loop"
    /\ retry_count = max_retries
    /\ events[Len(events)] = SleepEvent(8000)

\* C34: in an unbroken run of failures a cursor is requested at most
\* max_retries + 1 = 4 times: each of the first three failures is followed
\* by a retry, and the crawl stops on the 4th.
C34_StopsOnFourthFailure ==
    LET k == FailTail(LoopReqs(events))
    IN  /\ k <= max_retries + 1
        /\ k \in 1..max_retries => (pc = "loop" /\ retry_count = k)
        /\ k = max_retries + 1 => (pc \in { "save", "done" } /\ terminal = "failed")
        /\ \A i \in 1..(k - 1) :
              LET r == LoopReqs(events)
              IN  r[Len(r) - i].cursor = r[Len(r)].cursor

C34_Witness ==
    /\ pc = "done"
    /\ terminal = "failed"
    /\ Len(LoopReqs(events)) = max_retries + 1
    /\ FailTail(LoopReqs(events)) = max_retries + 1

\* The failed requests of the loop.
FailedReqs(h) == SelectSeq(LoopReqs(h), LAMBDA ev : FnFailed(scraper, ev))

\* C35: the retry budget is per page: a page that moves the cursor sets the
\* failure counter to 0, and a crawl ends as failed only on max_retries + 1
\* failures in a row, however many failures it has seen in total.
C35_BudgetIsPerPage ==
    /\ [](terminal = "failed" =>
              FailTail(LoopReqs(events)) = max_retries + 1)
    /\ [][ (pc = "loop" /\ (page' # page \/ page_handle' # page_handle))
              => (retry_count' = 0 /\ pc' = "loop") ]_vars

C35_Witness ==
    /\ pc = "loop"
    /\ terminal = "running"
    /\ Len(FailedReqs(events)) > max_retries

----------------------------------------------------------------------------
(* Claims about the accumulated list and the page cap *)

\* The accepted records of the pages the loop fetched, in request order.
RECURSIVE LoopAccumulated(_, _)
LoopAccumulated(s, r) ==
    IF r = <<>> THEN <<>>
    ELSE LoopAccumulated(s, SubSeq(r, 1, Len(r) - 1)) \o RecordsOf(s, r[Len(r)])

\* seq is an initial part of full.
IsPrefix(seq, full) ==
    Len(seq) <= Len(full) /\ SubSeq(full, 1, Len(seq)) = seq

\* C36, as stated: at every point of the run the accumulated list is the
\* concatenation, in request order, of the accepted records of the pages
\* the loop has fetched so far.
C36_LoopPagesOnly ==
    all_articles = LoopAccumulated(scraper, LoopReqs(events))

\* C36, amended: at every point of the run the accumulated list is the
\* concatenation, in request order, of the accepted records of the pages
\* fetched so far by the loop and, in cville_weekly, of the first page
\* fetched before the loop; each page contributes once, the list only
\* grows, and a failed fetch contributes nothing.
C36_AccumulatedInRequestOrder ==
    /\ [](all_articles = Accumulated(scraper, events))
    /\ [][ IsPrefix(all_articles, all_articles') ]_vars
    /\ [][ (NReq(events') = NReq(events) + 1 /\ ~FnOk(StepReq))
              => (all_articles' = all_articles) ]_vars

C36_Witness ==
    /\ scraper = "cville_weekly"
    /\ pc = "done"
    /\ Len(FailedReqs(events)) >= 1
    /\ LET r == Reqs(events)
       IN  /\ Len(r) >= 3
           /\ RecordsOf(scraper, r[1]) # <<>>
           /\ RecordsOf(scraper, r[Len(r)]) # <<>>
           /\ RecordsOf(scraper, r[Len(r)]) # RecordsOf(scraper, r[1])

\* A page the loop fetched whose continuation token ends the crawl.
FinalPage(ev) ==
    /\ FnOk(ev)
    /\ (~Truthy(ev.resp.body.handle) \/ ev.resp.body.handle = ev.cursor)

\* seq is a final part of full.
IsSuffix(seq, full) ==
    /\ Len(seq) <= Len(full)
    /\ SubSeq(full, Len(full) - Len(seq) + 1, Len(full)) = seq

\* C37: in a cursor-token crawl the accepted records of a page whose
\* continuation token is empty or repeated are at the end of the
\* accumulated list when the loop stops, and are in the saved output.
C37_FinalPageKept ==
    scraper \in TokenScrapers =>
        LET r == LoopReqs(events)
        IN  \A i \in 1..Len(r) :
                FinalPage(r[i]) =>
                    /\ i = Len(r)
                    /\ pc \in { "save", "done" }
                    /\ IsSuffix(RecordsOf(scraper, r[i]), all_articles)
                    /\ pc = "done" =>
                          /\ Len(saved) = 1
                          /\ IsSuffix(RecordsOf(scraper, r[i]), saved[1])

C37_Witness ==
    /\ scraper \in TokenScrapers
    /\ pc = "done"
    /\ LET r == LoopReqs(events)
       IN  /\ Len(r) >= 2
           /\ FinalPage(r[Len(r)])
           /\ RecordsOf(scraper, r[Len(r)]) # <<>>
           /\ Len(saved[1]) > Len(RecordsOf(scraper, r[Len(r)]))

\* C39: in daily_herald and chicago_tribune, when the first page states a
\* total result count T the page cap is ceil(T / 10), at least 1; the
\* fallback total is used only when the first page states none.
C39_CapFromStatedTotal ==
    ( /\ scraper \in { "daily_herald", "chicago_tribune" }
      /\ pc \in { "loop", "save", "done" }
      /\ terminal # "aborted" ) =>
        LET T == Reqs(events)[1].resp.body.total
            fallback == IF scraper = "daily_herald"
                        THEN DefaultResultsDh ELSE DefaultResultsCt
        IN  /\ max_pages >= 1
            /\ max_pages = IF T # NoneInt
                           THEN (T + results_per_page - 1) \div results_per_page
                           ELSE (fallback + results_per_page - 1) \div results_per_page

----------------------------------------------------------------------------
(* Claims about SiLive, continued (SpecSiLive) *)

\* A response with a status that is neither 200 nor 429 (0: no response).
OtherStatus(ev) == ev.resp.status \notin { 0, 200, 429 }

\* C38: in SiLive.scrape a response with a status other than 200 and 429
\* ends the crawl at once without a retry: one error entry is recorded for
\* it, no further request is issued, and save_results runs with the
\* articles accumulated so far.
C38_OtherStatusEndsCrawl ==
    /\ [](\A i \in 1..Len(Reqs(events)) :
              OtherStatus(Reqs(events)[i]) =>
                  /\ i = Len(Reqs(events))
                  /\ spc \in { "save", "done", "raised" }
                  /\ (spc # "save" /\ articles # <<>>) =>
                        (files # <<>> /\ files[1].file = "articles"
                            /\ files[1].content = articles))
    /\ [][ (spc = "loop" /\ NReq(events') = NReq(events) + 1 /\ OtherStatus(StepReq))
              => /\ errors' = Append(errors, ErrorEntry("HTTP", current_page_param))
                 /\ articles' = articles
                 /\ retries' = retries
                 /\ current_page_param' = current_page_param
                 /\ spc' = "save" ]_vars

C38_Witness ==
    /\ spc = "done"
    /\ articles # <<>>
    /\ Len(errors) = 1
    /\ OtherStatus(Reqs(events)[NReq(events)])
    /\ files[1] = FileWrite("articles", articles, TRUE)

----------------------------------------------------------------------------
(* Claims about two SiLive objects (SpecTwoSiLive) *)

\* The crawl session state of the running object, and of the suspended one.
OwnSession == <<current_page_param, articles, errors>>
PeerSession == <<peer.current_page_param, peer.articles, peer.errors>>

====
